---- MODULE Spec2Model ----
(***************************************************************************)
(* rust_labs: the statement/expression mini-interpreter of rust_lab_5       *)
(* (specification Spec), the symbolic expression tree of rust_lab_3       *)
(* (specification SpecTree), the directory-listing server of rust_lab_4   *)
(* (specifications SpecServer and SpecListener), the counters of           *)
(* rust_lab_6 (SpecCounter), the functions of rust_lab_6, rust_lab_4 and   *)
(* rust_lab_1 (SpecFns) and the CachedFile of rust_lab_7 (SpecCache).      *)
(*                                                                         *)
(* Program nodes are tagged tuples, the tag first:                         *)
(*   expressions  <<"Lit", n>>  <<"When", c, t, f>>  <<"Constant", name>>  *)
(*                <<"ReadFrom", cell>>  <<"SaveIn", cell, inner>>          *)
(*                <<"Volatile", cell, name, inner>>                        *)
(*                <<"CounterExpr", id, value>>                             *)
(*   statements   <<"Print", e>>  <<"Nothing">>  <<"Seq", s1, s2>>         *)
(*                <<"Repeat", N, s>>  <<"Recorder", label>>                *)
(* A memory cell (a `u64` local borrowed by ReadFrom/SaveIn/Volatile) is   *)
(* named by a string; `cells` maps cell names to their contents.           *)
(*                                                                         *)
(* Expression trees (enum E) are tagged tuples as well:                    *)
(*   <<"Add", e1, e2>>  <<"Neg", e>>  <<"Mul", e1, e2>>  <<"Inv", e>>      *)
(*   <<"Const", <<"Numeric", n>>>>  <<"Const", <<"Named", s>>>>            *)
(*   <<"Func", name, arg>>  <<"Var", v>>  with v one of "Var::X", ...      *)
(***************************************************************************)
EXTENDS Integers, Sequences, FiniteSets, TLC

VARIABLES
    context,    \* lab 5: the caller's Context (HashMap<&str, u64>)
    cells,      \* lab 5: the u64 locals borrowed by the program
    prog,       \* lab 5: the program value built last
    pc,         \* lab 5: "idle" | "done" | "aborted" (a panic unwound)
    context0,   \* lab 5: the Context as it was when the last run started
    cells0,     \* lab 5: the cells as they were when the last run started
    calls,      \* lab 5: CounterExpr.calls, per counter, of the last run
    log,        \* lab 5: Recorder.log of the last run
    out,        \* lab 5: the values println! wrote in the last run
    trace,      \* lab 5: the events of the last run, in order: <<path, value>>
                \*        for every exec_expr that returned, <<path, label>> for
                \*        every Recorder push; path leads from the root to the node
    val,        \* lab 5: the value the last top-level exec_expr returned
    expr,       \* lab 3: the expression tree at hand (a Box<E>)
    by,         \* lab 3: the Var the last diff was taken by
    res,        \* lab 3: the tree the last operation returned
    pc3,        \* lab 3: "built" | "diffed" | "unnegged" | "uninved" |
                \*        "substituted" | "rendered"
    sname,      \* lab 3: the name the last substitute looked for
    svalue,     \* lab 3: the tree the last substitute put in its place
    text,       \* lab 3: what each format!("{}", expr) of the tree at hand gave
    conns,      \* lab 4: per accepted connection, the state of its worker:
                \*        pc    "started" | "reading" | "handling" | "ok" | "err"
                \*        peer  what the peer is ready to send
                \*        buf   bulk_read's buffer, read its fill count
                \*        got   the chunks stream.read returned, in order
                \*        data  the Vec<u8> bulk_read returned
                \*        sent  the bytes written to the socket
                \*        err   the io::Error handle_client returned with
    errlog,     \* lab 4: the lines written to the error stream
    listener,   \* lab 4: main's position: "unbound" | "listening" | "exited"
    incoming,   \* lab 4: what listener.incoming() is still to yield, in order:
                \*        a peer's kind for Ok(stream), "error" for Err
    input,      \* labs 1, 4, 6: the argument at hand, <<function family, value>>
    output,     \* labs 1, 4, 6: what each function called on input returned
    counters,   \* lab 6: per closure made by make_counter: start, counter (the
                \*        captured variable), rets (the values returned so far),
                \*        dead (a call panicked)
    cache,      \* lab 7: CachedFile.cache, a OnceCell<String>
    disk,       \* lab 7: per path, what fs::read_to_string gives now
    reads,      \* lab 7: how many times fs::read_to_string was called
    history     \* lab 7: the calls made on the CachedFile and what they returned

vars5 == <<context, cells, prog, pc, context0, cells0, calls, log, out, trace, val>>
vars3 == <<expr, by, res, pc3, sname, svalue, text>>
vars4 == <<conns, errlog, listener, incoming>>
varsF == <<input, output>>
vars6 == <<counters>>
vars7 == <<cache, disk, reads, history>>
varsL == <<varsF, vars6, vars7>>
vars == <<vars5, vars3, vars4, varsL>>

----------------------------------------------------------------------------
(* Bounds of the model *)

\* u64 literals of the programs are 0..MaxLit
MaxLit == 2
\* Repeat<N> is instantiated for N in 0..MaxRepeat
MaxRepeat == 3

Keys == {"x", "y"}
CtxVals == {0, 10}
Cells == {"a", "b"}
CounterIds == {"c", "t", "f"}
Labels == {"A", "B"}
Lits == 0..MaxLit

\* every Context over Keys: each key absent or mapped
Contexts == UNION {[K -> CtxVals] : K \in SUBSET Keys}

----------------------------------------------------------------------------
(* Constructors *)

Lit(n) == <<"Lit", n>>
when(condition, true_val, false_val) == <<"When", condition, true_val, false_val>>
constant(name) == <<"Constant", name>>
read_from(name) == <<"ReadFrom", name>>
save_in(destination, inner) == <<"SaveIn", destination, inner>>
volatile(destination, name, inner) == <<"Volatile", destination, name, inner>>
CounterExpr(id, value) == <<"CounterExpr", id, value>>
print(inner) == <<"Print", inner>>
nothing == <<"Nothing">>
seq(first, second) == <<"Seq", first, second>>
repeat(N, inner) == <<"Repeat", N, inner>>
Recorder(label) == <<"Recorder", label>>

ExprTags == {"Lit", "When", "Constant", "ReadFrom", "SaveIn", "Volatile", "CounterExpr"}
IsExpr(p) == p[1] \in ExprTags

----------------------------------------------------------------------------
(* The interpreter.  A machine state s is a record                         *)
(*   [context, cells, calls, log, out, trace, val, panicked]               *)
(* where s.context is the Context the callee is handed by reference and,   *)
(* in the returned record, that same Context as the caller sees it after   *)
(* the call.                                                               *)

\* HashMap::insert
Insert(ctx, k, v) == [x \in (DOMAIN ctx) \cup {k} |-> IF x = k THEN v ELSE ctx[x]]

\* an exec_expr call at `path` returns v
Ret(s, path, v) == [s EXCEPT !.val = v, !.trace = Append(@, <<path, v>>)]

Panic(s) == [s EXCEPT !.panicked = TRUE]

RECURSIVE exec_expr(_, _, _)

LitExec(e, s, path) == Ret(s, path, e[2])

\* plausible slips of When::exec_expr
WhenExecEager(e, s, path) ==
    LET c == exec_expr(e[2], s, path \o <<2>>)
        t == exec_expr(e[3], c, path \o <<3>>)
        f == exec_expr(e[4], t, path \o <<4>>)
    IN  IF c.panicked THEN c
        ELSE IF t.panicked THEN t
        ELSE IF f.panicked THEN f
        ELSE Ret(f, path, IF c.val = 0 THEN f.val ELSE t.val)

WhenExecOnlyOne(e, s, path) ==
    LET c == exec_expr(e[2], s, path \o <<2>>)
    IN  IF c.panicked THEN c
        ELSE LET r == IF c.val = 1
                      THEN exec_expr(e[3], c, path \o <<3>>)
                      ELSE exec_expr(e[4], c, path \o <<4>>)
             IN  IF r.panicked THEN r ELSE Ret(r, path, r.val)

WhenExec(e, s, path) ==
    LET c == exec_expr(e[2], s, path \o <<2>>)
    IN  IF c.panicked THEN c
        ELSE LET r == IF c.val = 0
                      THEN exec_expr(e[4], c, path \o <<4>>)
                      ELSE exec_expr(e[3], c, path \o <<3>>)
             IN  IF r.panicked THEN r ELSE Ret(r, path, r.val)

\* unwrap_or(0) in place of the panic
ConstantExecDefault(e, s, path) ==
    Ret(s, path, IF e[2] \in DOMAIN s.context THEN s.context[e[2]] ELSE 0)

ConstantExec(e, s, path) ==
    IF e[2] \in DOMAIN s.context THEN Ret(s, path, s.context[e[2]]) ELSE Panic(s)

ReadFromExec(e, s, path) == Ret(s, path, s.cells[e[2]])

\* the inner expression evaluated a second time for the returned value
SaveInExecTwice(e, s, path) ==
    LET r == exec_expr(e[3], s, path \o <<3>>)
        r2 == exec_expr(e[3], [r EXCEPT !.cells[e[2]] = r.val], path \o <<3>>)
    IN  IF r.panicked THEN r
        ELSE IF r2.panicked THEN r2
        ELSE Ret(r2, path, r2.val)

SaveInExec(e, s, path) ==
    LET r == exec_expr(e[3], s, path \o <<3>>)
    IN  IF r.panicked THEN r
        ELSE Ret([r EXCEPT !.cells[e[2]] = r.val], path, r.val)

\* the override inserted into the caller's map instead of a clone
VolatileExecLeak(e, s, path) ==
    LET new_context == Insert(s.context, e[3], s.cells[e[2]])
        r == exec_expr(e[4], [s EXCEPT !.context = new_context], path \o <<4>>)
    IN  IF r.panicked THEN r
        ELSE Ret([r EXCEPT !.cells[e[2]] = r.val], path, r.val)

\* the inner expression run against the caller's Context, no override
VolatileExecNoShadow(e, s, path) ==
    LET r == exec_expr(e[4], s, path \o <<4>>)
    IN  IF r.panicked THEN r
        ELSE Ret([r EXCEPT !.cells[e[2]] = r.val], path, r.val)

VolatileExec(e, s, path) ==
    LET new_context == Insert(s.context, e[3], s.cells[e[2]])
        r == exec_expr(e[4], [s EXCEPT !.context = new_context], path \o <<4>>)
        back == [r EXCEPT !.context = s.context]
    IN  IF r.panicked THEN back
        ELSE Ret([back EXCEPT !.cells[e[2]] = r.val], path, r.val)

CounterExprExec(e, s, path) ==
    Ret([s EXCEPT !.calls[e[2]] = @ + 1], path, e[3])

exec_expr(e, s, path) ==
    CASE e[1] = "Lit" -> LitExec(e, s, path)
      [] e[1] = "When" -> WhenExec(e, s, path)
      [] e[1] = "Constant" -> ConstantExec(e, s, path)
      [] e[1] = "ReadFrom" -> ReadFromExec(e, s, path)
      [] e[1] = "SaveIn" -> SaveInExec(e, s, path)
      [] e[1] = "Volatile" -> VolatileExec(e, s, path)
      [] e[1] = "CounterExpr" -> CounterExprExec(e, s, path)

RECURSIVE exec_stmt(_, _, _)

PrintExec(st, s, path) ==
    LET r == exec_expr(st[2], s, path \o <<2>>)
    IN  IF r.panicked THEN r ELSE [r EXCEPT !.out = Append(@, r.val)]

\* second before first
SeqExecSwapped(st, s, path) ==
    LET a == exec_stmt(st[3], s, path \o <<3>>)
    IN  IF a.panicked THEN a ELSE exec_stmt(st[2], a, path \o <<2>>)

SeqExec(st, s, path) ==
    LET a == exec_stmt(st[2], s, path \o <<2>>)
    IN  IF a.panicked THEN a ELSE exec_stmt(st[3], a, path \o <<3>>)

RECURSIVE RepeatLoop(_, _, _, _)
\* for _ in 0..N { inner.exec_stmt(context) }, n iterations still to run
RepeatLoop(n, inner, s, path) ==
    IF n = 0 \/ s.panicked THEN s
    ELSE RepeatLoop(n - 1, inner, exec_stmt(inner, s, path), path)

\* for _ in 0..=N
RepeatExecInclusive(st, s, path) == RepeatLoop(st[2] + 1, st[3], s, path \o <<3>>)

RepeatExec(st, s, path) == RepeatLoop(st[2], st[3], s, path \o <<3>>)

\* log.borrow_mut().push(label); the push is an event of the run as well
RecorderExec(st, s, path) ==
    [s EXCEPT !.log = Append(@, st[2]), !.trace = Append(@, <<path, st[2]>>)]

exec_stmt(st, s, path) ==
    CASE st[1] = "Print" -> PrintExec(st, s, path)
      [] st[1] = "Nothing" -> s
      [] st[1] = "Seq" -> SeqExec(st, s, path)
      [] st[1] = "Repeat" -> RepeatExec(st, s, path)
      [] st[1] = "Recorder" -> RecorderExec(st, s, path)

----------------------------------------------------------------------------
(* Which programs the borrow checker accepts: a cell is borrowed either by *)
(* exactly one SaveIn/Volatile (&mut) or by any number of ReadFrom (&).    *)

RECURSIVE MutBorrows(_)
\* the sequence of cells borrowed mutably, one entry per borrowing node
MutBorrows(p) ==
    CASE p[1] = "When" -> MutBorrows(p[2]) \o MutBorrows(p[3]) \o MutBorrows(p[4])
      [] p[1] = "SaveIn" -> <<p[2]>> \o MutBorrows(p[3])
      [] p[1] = "Volatile" -> <<p[2]>> \o MutBorrows(p[4])
      [] p[1] = "Print" -> MutBorrows(p[2])
      [] p[1] = "Seq" -> MutBorrows(p[2]) \o MutBorrows(p[3])
      [] p[1] = "Repeat" -> MutBorrows(p[3])
      [] OTHER -> <<>>

RECURSIVE SharedBorrows(_)
SharedBorrows(p) ==
    CASE p[1] = "When" -> SharedBorrows(p[2]) \cup SharedBorrows(p[3]) \cup SharedBorrows(p[4])
      [] p[1] = "ReadFrom" -> {p[2]}
      [] p[1] = "SaveIn" -> SharedBorrows(p[3])
      [] p[1] = "Volatile" -> SharedBorrows(p[4])
      [] p[1] = "Print" -> SharedBorrows(p[2])
      [] p[1] = "Seq" -> SharedBorrows(p[2]) \cup SharedBorrows(p[3])
      [] p[1] = "Repeat" -> SharedBorrows(p[3])
      [] OTHER -> {}

BorrowOk(p) ==
    LET m == MutBorrows(p)
    IN  /\ \A i, j \in 1..Len(m) : i # j => m[i] # m[j]
        /\ \A i \in 1..Len(m) : m[i] \notin SharedBorrows(p)

----------------------------------------------------------------------------
(* The programs the model builds *)

Atoms ==
    {Lit(v) : v \in Lits} \cup {constant(k) : k \in Keys} \cup {read_from(c) : c \in Cells}

CondCounters == {CounterExpr("c", v) : v \in Lits}
TrueBranches == {Lit(1), CounterExpr("t", 1), save_in("a", Lit(1)), constant("x")}
FalseBranches == {Lit(2), CounterExpr("f", 2), save_in("b", Lit(2)), constant("y")}

FlatWhens ==
    {when(c, t, f) : c \in Atoms \cup CondCounters, t \in TrueBranches, f \in FalseBranches}

InnerWhens ==
    {when(constant(k), Lit(1), Lit(0)) : k \in Keys}
        \cup {when(CounterExpr("c", v), CounterExpr("t", 1), CounterExpr("f", 0)) : v \in {0, 1}}

NestedWhens ==
    {when(w, t, f) : w \in InnerWhens, t \in InnerWhens \cup {Lit(2)}, f \in InnerWhens \cup {Lit(2)}}

SaveIns ==
    {save_in(c, e) : c \in Cells, e \in Atoms \cup CondCounters \cup InnerWhens}

ShadowBodies ==
    {constant(k) : k \in Keys} \cup {when(constant(k), Lit(1), Lit(2)) : k \in Keys}
        \cup {Lit(v) : v \in Lits} \cup {read_from(c) : c \in Cells}

Volatiles == {volatile(c, k, e) : c \in Cells, k \in Keys, e \in ShadowBodies}

NestedShadows ==
    {volatile(c1, k1, volatile(c2, k2, constant(k3))) :
        c1 \in Cells, c2 \in Cells, k1 \in Keys, k2 \in Keys, k3 \in Keys}
    \cup {volatile(c1, k1, save_in(c2, constant(k2))) :
        c1 \in Cells, c2 \in Cells, k1 \in Keys, k2 \in Keys}
    \cup {save_in(c1, when(volatile(c2, k1, when(constant(k2), Lit(1), Lit(0))), Lit(2), Lit(0))) :
        c1 \in Cells, c2 \in Cells, k1 \in Keys, k2 \in Keys}
    \cup {when(volatile(c, k1, constant(k2)), constant(k3), Lit(2)) :
        c \in Cells, k1 \in Keys, k2 \in Keys, k3 \in Keys}

Exprs ==
    {e \in Atoms \cup CondCounters \cup FlatWhens \cup NestedWhens \cup SaveIns
            \cup Volatiles \cup NestedShadows : BorrowOk(e)}

\* prints 1 and 0 in turn: each run shadows y with what the last one left in a
Toggle == print(volatile("a", "y", when(constant("y"), Lit(0), Lit(1))))

BasicStmts ==
    {nothing} \cup {Recorder(l) : l \in Labels} \cup {Toggle}
        \cup {print(e) : e \in {CounterExpr("c", 1), constant("x"), save_in("b", read_from("a"))}}

Seqs == {seq(s1, s2) : s1 \in BasicStmts, s2 \in BasicStmts}

Repeats ==
    {repeat(n, s) : n \in 0..MaxRepeat,
                    s \in BasicStmts \cup {seq(Recorder("A"), Recorder("B"))}}

NestedStmts ==
    {seq(repeat(n, Recorder("A")), repeat(m, Recorder("B"))) : n \in 0..MaxRepeat, m \in 0..MaxRepeat}
        \cup {repeat(n, repeat(m, Recorder("A"))) : n \in 0..MaxRepeat, m \in 0..MaxRepeat}

Stmts == {s \in BasicStmts \cup Seqs \cup Repeats \cup NestedStmts : BorrowOk(s)}

----------------------------------------------------------------------------
(* Lab 5 as a state machine: build a program and run it once against the   *)
(* Context, then drop it (which ends its borrows of the cells).            *)

CellVals == Lits \cup CtxVals

\* the machine state a top-level run starts from: fresh counters and log
Start ==
    [context |-> context, cells |-> cells, calls |-> [i \in CounterIds |-> 0],
     log |-> <<>>, out |-> <<>>, trace |-> <<>>, val |-> 0, panicked |-> FALSE]

Finish(p, r) ==
    /\ prog' = p
    /\ context0' = context
    /\ cells0' = cells
    /\ context' = r.context
    /\ cells' = r.cells
    /\ calls' = r.calls
    /\ log' = r.log
    /\ out' = r.out
    /\ trace' = r.trace
    /\ val' = r.val
    /\ pc' = IF r.panicked THEN "aborted" ELSE "done"
    /\ UNCHANGED <<vars3, vars4, varsL>>

RunExpr ==
    /\ pc = "idle"
    /\ \E e \in Exprs : Finish(e, exec_expr(e, Start, <<>>))

RunStmt ==
    /\ pc = "idle"
    /\ \E s \in Stmts : Finish(s, exec_stmt(s, Start, <<>>))

DropProgram ==
    /\ pc = "done"
    /\ pc' = "idle"
    /\ prog' = nothing
    /\ context0' = context
    /\ cells0' = cells
    /\ calls' = [i \in CounterIds |-> 0]
    /\ log' = <<>>
    /\ out' = <<>>
    /\ trace' = <<>>
    /\ val' = 0
    /\ UNCHANGED <<context, cells>>
    /\ UNCHANGED <<vars3, vars4, varsL>>

Init5 ==
    /\ context \in Contexts
    /\ cells = [c \in Cells |-> 0]
    /\ prog = nothing
    /\ pc = "idle"
    /\ context0 = context
    /\ cells0 = cells
    /\ calls = [i \in CounterIds |-> 0]
    /\ log = <<>>
    /\ out = <<>>
    /\ trace = <<>>
    /\ val = 0

\* lab 3 is not running
Parked3 ==
    /\ expr = <<"Var", "Var::X">>
    /\ by = "Var::X"
    /\ res = expr
    /\ pc3 = "built"
    /\ sname = ""
    /\ svalue = expr
    /\ text = <<>>

\* lab 4 is not running
Parked4 ==
    /\ conns = <<>>
    /\ errlog = <<>>
    /\ listener = "unbound"
    /\ incoming = <<>>

\* no function of labs 1, 4, 6 is being called
ParkedF ==
    /\ input = <<"none">>
    /\ output = <<>>

\* no counter has been made
Parked6 == counters = <<>>

\* no CachedFile is in use
Parked7 ==
    /\ cache = <<"None">>
    /\ disk = <<>>
    /\ reads = 0
    /\ history = <<>>

ParkedL == ParkedF /\ Parked6 /\ Parked7

Init == Init5 /\ Parked3 /\ Parked4 /\ ParkedL

Next ==
    \/ RunExpr
    \/ RunStmt
    \/ DropProgram

Spec == Init /\ [][Next]_vars

----------------------------------------------------------------------------
(* Reading a finished run *)

Ran == pc \in {"done", "aborted"}
RanExpr == Ran /\ IsExpr(prog)

RECURSIVE Sub(_, _)
\* the node of p that `path` leads to
Sub(p, path) == IF path = <<>> THEN p ELSE Sub(p[Head(path)], Tail(path))

ChildIdx(p) ==
    CASE p[1] = "When" -> {2, 3, 4}
      [] p[1] = "SaveIn" -> {3}
      [] p[1] = "Volatile" -> {4}
      [] p[1] = "Print" -> {2}
      [] p[1] = "Seq" -> {2, 3}
      [] p[1] = "Repeat" -> {3}
      [] OTHER -> {}

RECURSIVE Paths(_)
\* the paths of all nodes of p
Paths(p) == {<<>>} \cup UNION {{<<i>> \o q : q \in Paths(p[i])} : i \in ChildIdx(p)}

NodesOf(tag) == {q \in Paths(prog) : Sub(prog, q)[1] = tag}

IsPrefix(a, b) == Len(a) <= Len(b) /\ SubSeq(b, 1, Len(a)) = a

\* the positions of the events of the node at q
Events(q) == {i \in 1..Len(trace) : trace[i][1] = q}
Count(q) == Cardinality(Events(q))
\* the positions of the events of the subtree at q
EventsUnder(q) == {i \in 1..Len(trace) : IsPrefix(q, trace[i][1])}
\* the value the node at q returned first; -1 (no u64) when it never returned
ValAt(q) ==
    IF Events(q) = {} THEN -1
    ELSE trace[CHOOSE i \in Events(q) : \A j \in Events(q) : i <= j][2]

\* the cells the subtree at q borrows mutably
MutCells(q) == LET m == MutBorrows(Sub(prog, q)) IN {m[i] : i \in 1..Len(m)}

\* the subtree at q left no trace: no event, no counter, no cell written
Untouched(q) ==
    /\ EventsUnder(q) = {}
    /\ \A c \in MutCells(q) : cells[c] = cells0[c]

\* CounterExpr.calls counts the evaluations of the counter's nodes
CallsMatchTrace ==
    \A id \in CounterIds :
        calls[id] = Cardinality({i \in 1..Len(trace) :
                        LET n == Sub(prog, trace[i][1])
                        IN  n[1] = "CounterExpr" /\ n[2] = id})

----------------------------------------------------------------------------
(* C1: one exec_expr of a When evaluates the condition exactly once, then  *)
(* exactly one branch: the true branch is never evaluated (no event, no    *)
(* counter bumped, no cell written) when the condition is 0, the false     *)
(* branch never when it is nonzero.                                        *)
C1_WhenShortCircuit ==
    RanExpr =>
        /\ CallsMatchTrace
        /\ \A q \in NodesOf("When") :
            LET c == q \o <<2>>
                t == q \o <<3>>
                f == q \o <<4>>
            IN  /\ Count(c) <= 1
                /\ Count(q) = 1 => Count(c) = 1 /\ Count(t) + Count(f) = 1
                /\ Count(c) = 0 => Untouched(t) /\ Untouched(f)
                /\ Count(c) = 1 =>
                    /\ \A i \in EventsUnder(c), j \in EventsUnder(t) \cup EventsUnder(f) : i < j
                    /\ IF ValAt(c) = 0 THEN Untouched(t) /\ Count(f) <= 1
                                       ELSE Untouched(f) /\ Count(t) <= 1

C1_Witness ==
    /\ pc = "done"
    /\ prog = when(CounterExpr("c", 0), save_in("a", Lit(1)), CounterExpr("f", 2))
    /\ cells0["a"] = 2
    /\ cells["a"] = 2
    /\ calls = [i \in CounterIds |-> IF i = "t" THEN 0 ELSE 1]

(* C6: the value of When(c, t, f) is the value of t when c is nonzero and  *)
(* the value of f when c is 0, nested Whens included; with {x:0, y:10},    *)
(* when(lookup y, 1, 2) is 1 and when(lookup x, 1, 2) is 2.                *)
C6_WhenValue ==
    (pc = "done" /\ IsExpr(prog)) =>
        /\ val = ValAt(<<>>)
        /\ \A q \in NodesOf("Lit") : Count(q) = 1 => ValAt(q) = Sub(prog, q)[2]
        /\ \A q \in NodesOf("When") :
            Count(q) = 1 =>
                LET taken == IF ValAt(q \o <<2>>) = 0 THEN q \o <<4>> ELSE q \o <<3>>
                IN  Count(taken) = 1 /\ ValAt(q) = ValAt(taken)
        /\ context0 = [k \in Keys |-> IF k = "x" THEN 0 ELSE 10] =>
            /\ prog = when(constant("y"), Lit(1), Lit(2)) => val = 1
            /\ prog = when(constant("x"), Lit(1), Lit(2)) => val = 2

C6_Witness ==
    /\ pc = "done"
    /\ context0 = [k \in Keys |-> 10]
    /\ prog = when(when(constant("y"), Lit(1), Lit(0)), Lit(2), when(constant("x"), Lit(1), Lit(0)))
    /\ val = 2

\* the enclosing Volatile nodes of the node at q that shadow key k, by depth
Shadowers(q, k) ==
    {i \in 1..Len(q) : LET n == Sub(prog, SubSeq(q, 1, i - 1))
                       IN  n[1] = "Volatile" /\ n[3] = k}

\* what key k must resolve to at the node at q: the content, when the run
\* started, of the cell of the innermost Volatile shadowing k, else the
\* caller's entry; -1 (no u64) when there is neither
Expected(q, k) ==
    LET S == Shadowers(q, k)
    IN  IF S # {}
        THEN LET i == CHOOSE m \in S : \A j \in S : j <= m
             IN  cells0[Sub(prog, SubSeq(q, 1, i - 1))[2]]
        ELSE IF k \in DOMAIN context0 THEN context0[k] ELSE -1

RECURSIVE FirstLeaf(_)
\* the path of the leaf an exec_expr of p reaches first
FirstLeaf(p) ==
    CASE p[1] = "When" -> <<2>> \o FirstLeaf(p[2])
      [] p[1] = "SaveIn" -> <<3>> \o FirstLeaf(p[3])
      [] p[1] = "Volatile" -> <<4>> \o FirstLeaf(p[4])
      [] OTHER -> <<>>

(* C2: a Volatile whose key is already in the caller's Context leaves that *)
(* Context as it was (same keys, same values) once it has returned, and    *)
(* sets its memory cell to the inner expression's result.                  *)
C2_ShadowDoesNotLeak ==
    RanExpr =>
        \A q \in NodesOf("Volatile") :
            (Count(q) = 1 /\ Sub(prog, q)[3] \in DOMAIN context0) =>
                /\ context = context0
                /\ cells[Sub(prog, q)[2]] = ValAt(q \o <<4>>)
                /\ \A r \in NodesOf("Constant") :
                    (Count(r) = 1 /\ ~IsPrefix(q, r) /\ Shadowers(r, Sub(prog, r)[2]) = {}) =>
                        ValAt(r) = context0[Sub(prog, r)[2]]

C2_Witness ==
    /\ pc = "done"
    /\ prog = when(volatile("a", "y", constant("y")), constant("y"), Lit(2))
    /\ context0 = [k \in Keys |-> 10]
    /\ cells0["a"] = 1
    /\ cells["a"] = 1
    /\ val = 10
    /\ context = context0

(* C3: inside Volatile(cell, name, inner) a lookup of name yields what the *)
(* cell held when the Volatile started, every other key resolves as in the *)
(* caller's Context, and Volatile returns the value it writes back to the  *)
(* cell, so that the next Volatile on the cell sees it.                    *)
C3_ShadowBinding ==
    RanExpr =>
        /\ \A q \in NodesOf("Constant") :
            Count(q) = 1 => ValAt(q) = Expected(q, Sub(prog, q)[2])
        /\ \A q \in NodesOf("Volatile") :
            Count(q) = 1 =>
                /\ Count(q \o <<4>>) = 1
                /\ ValAt(q) = ValAt(q \o <<4>>)
                /\ cells[Sub(prog, q)[2]] = ValAt(q)

\* the second of two runs: the cell holds 2, the result of the first
C3_Witness ==
    /\ pc = "done"
    /\ prog = volatile("a", "y", when(constant("y"), Lit(1), Lit(2)))
    /\ context0 = [k \in {"y"} |-> 0]
    /\ cells0["a"] = 2
    /\ val = 1
    /\ cells["a"] = 1

(* C5: a Constant lookup of a key the Context lacks aborts the evaluation  *)
(* (no value is returned, by the lookup or by any node around it); of a    *)
(* key it has, returns the mapped value and does not abort.                *)
C5_MissingKeyAborts ==
    RanExpr =>
        /\ \A q \in NodesOf("Constant") :
            Count(q) = 1 =>
                /\ Expected(q, Sub(prog, q)[2]) # -1
                /\ ValAt(q) = Expected(q, Sub(prog, q)[2])
        /\ LET q == FirstLeaf(prog)
               n == Sub(prog, q)
           IN  n[1] = "Constant" =>
                IF Expected(q, n[2]) = -1
                THEN pc = "aborted" /\ trace = <<>> /\ cells = cells0
                ELSE Count(q) = 1
        /\ prog[1] = "Constant" /\ prog[2] \in DOMAIN context0 =>
                pc = "done" /\ val = context0[prog[2]]
        /\ pc = "aborted" =>
            /\ Count(<<>>) = 0
            /\ \E q \in NodesOf("Constant") :
                Count(q) = 0 /\ Expected(q, Sub(prog, q)[2]) = -1

C5_Witness ==
    /\ pc = "aborted"
    /\ prog = save_in("a", constant("x"))
    /\ "x" \notin DOMAIN context0
    /\ cells0["a"] = 1
    /\ cells["a"] = 1

(* C8: SaveIn(cell, inner) evaluates inner exactly once, stores the result *)
(* in the cell and returns that value; the Context is not changed.         *)
C8_SaveInWritesAndReturns ==
    RanExpr =>
        /\ CallsMatchTrace
        /\ context = context0
        /\ \A q \in NodesOf("SaveIn") :
            /\ \A r \in Paths(Sub(prog, q)) : Count(q \o r) <= 1
            /\ Count(q) = 1 =>
                /\ Count(q \o <<3>>) = 1
                /\ ValAt(q) = ValAt(q \o <<3>>)
                /\ cells[Sub(prog, q)[2]] = ValAt(q)
            /\ Count(q) = 0 => cells[Sub(prog, q)[2]] = cells0[Sub(prog, q)[2]]
        /\ pc = "done" /\ prog[1] = "SaveIn" => val = cells[prog[2]]

C8_Witness ==
    /\ pc = "done"
    /\ prog = save_in("b", CounterExpr("c", 2))
    /\ cells0["b"] = 0
    /\ cells["b"] = 2
    /\ val = 2
    /\ calls["c"] = 1

----------------------------------------------------------------------------
(* What a statement that runs to completion pushes to the Recorder log *)

RECURSIVE Times(_, _)
\* sq, n times over
Times(n, sq) == IF n = 0 THEN <<>> ELSE sq \o Times(n - 1, sq)

RECURSIVE LabelsOf(_)
LabelsOf(st) ==
    CASE st[1] = "Recorder" -> <<st[2]>>
      [] st[1] = "Seq" -> LabelsOf(st[2]) \o LabelsOf(st[3])
      [] st[1] = "Repeat" -> Times(st[2], LabelsOf(st[3]))
      [] OTHER -> <<>>

RECURSIVE RunsTimes(_, _)
\* the statement at q ran exactly n times
RunsTimes(q, n) ==
    LET st == Sub(prog, q)
    IN  CASE st[1] = "Recorder" -> Count(q) = n
          [] st[1] = "Print" -> Count(q \o <<2>>) = n
          [] st[1] = "Repeat" -> RunsTimes(q \o <<3>>, n * st[2])
          [] st[1] = "Seq" -> RunsTimes(q \o <<2>>, n) /\ RunsTimes(q \o <<3>>, n)
          [] OTHER -> TRUE

(* C4: one exec_stmt of Repeat<N>(stmt) executes stmt exactly N times, one *)
(* after another against the same Context, and does nothing else; for      *)
(* N = 0 stmt is not executed at all (a logging stmt leaves N entries).    *)
C4_RepeatRunsNTimes ==
    (pc = "done" /\ prog[1] = "Repeat") =>
        LET n == prog[2]
            inner == prog[3]
        IN  /\ log = Times(n, LabelsOf(inner))
            /\ RunsTimes(<<3>>, n)
            /\ inner[1] = "Recorder" => Len(log) = n
            /\ inner[1] = "Print" => Len(out) = n
            /\ \A i \in 1..Len(trace) : IsPrefix(<<3>>, trace[i][1])
            /\ n = 0 => trace = <<>> /\ log = <<>> /\ out = <<>> /\ cells = cells0
            /\ context = context0
            /\ CallsMatchTrace
            /\ inner = Toggle =>
                \A i \in 1..n : out[i] = IF i = 1 THEN (IF cells0["a"] = 0 THEN 1 ELSE 0)
                                                  ELSE 1 - out[i - 1]

C4_Witness ==
    /\ pc = "done"
    /\ prog = repeat(3, Recorder("A"))
    /\ log = <<"A", "A", "A">>
    /\ Count(<<3>>) = 3

(* C7: Seq(first, second) runs all of first before anything of second,     *)
(* each exactly once; seq(repeat<2>(A), repeat<3>(B)) logs A, A, B, B, B.  *)
C7_SeqOrder ==
    (Ran /\ prog[1] = "Seq") =>
        /\ \A i \in EventsUnder(<<2>>), j \in EventsUnder(<<3>>) : i < j
        /\ \A i \in 1..Len(trace) : IsPrefix(<<2>>, trace[i][1]) \/ IsPrefix(<<3>>, trace[i][1])
        /\ pc = "done" =>
            /\ log = LabelsOf(prog[2]) \o LabelsOf(prog[3])
            /\ RunsTimes(<<2>>, 1)
            /\ RunsTimes(<<3>>, 1)
            /\ prog = seq(repeat(2, Recorder("A")), repeat(3, Recorder("B"))) =>
                log = <<"A", "A", "B", "B", "B">>

C7_Witness ==
    /\ pc = "done"
    /\ prog = seq(repeat(2, Recorder("A")), repeat(3, Recorder("B")))
    /\ log = <<"A", "A", "B", "B", "B">>

----------------------------------------------------------------------------
(* Lab 3: the expression tree *)

\* numeric constants of the trees are 0..MaxNum
MaxNum == 1
\* a derivative is differentiated again only if it has at most MaxNodes nodes
MaxNodes == 6
\* a tree is wrapped in at most MaxWrap negation and reciprocal layers
MaxWrap == 5
\* a tree is rendered at most MaxRenders times
MaxRenders == 2

Var == {"Var::X", "Var::Y", "Var::Z"}
ConstNames == {"a"}
FuncNames == {"f"}

Numeric(n) == <<"Numeric", n>>
Named(n) == <<"Named", n>>

E_add(arg1, arg2) == <<"Add", arg1, arg2>>
E_var(arg1) == <<"Var", arg1>>
E_constant(c) == <<"Const", c>>
E_mul(arg1, arg2) == <<"Mul", arg1, arg2>>
E_inv(arg1) == <<"Inv", arg1>>
E_neg(arg1) == <<"Neg", arg1>>
E_func(name, arg) == <<"Func", name, arg>>

\* impl Display for Var
VarFmt(v) ==
    CASE v = "Var::X" -> "X"
      [] v = "Var::Y" -> "Y"
      [] v = "Var::Z" -> "Z"

RECURSIVE diff(_, _)

\* the sum taken for its first term when the second term's derivative is 0
DiffAddSimplified(e1, e2, v) ==
    IF diff(e2, v) = E_constant(Numeric(0)) THEN diff(e1, v)
    ELSE E_add(diff(e1, v), diff(e2, v))

DiffAdd(e1, e2, v) == E_add(diff(e1, v), diff(e2, v))

DiffNeg(e, v) == E_neg(diff(e, v))

\* g differentiated in the first product as well
DiffMulBothPrimed(e1, e2, v) ==
    LET f == e1
        f_prime == diff(e1, v)
        g_prime == diff(e2, v)
    IN  E_add(E_mul(f_prime, g_prime), E_mul(f, g_prime))

DiffMul(e1, e2, v) ==
    LET f == e1
        g == e2
        f_prime == diff(e1, v)
        g_prime == diff(e2, v)
    IN  E_add(E_mul(f_prime, g), E_mul(f, g_prime))

\* the reciprocal rule without its sign
DiffInvNoNeg(e, v) ==
    LET f == e
        f_prime == diff(e, v)
        f_squared == E_mul(f, f)
    IN  E_mul(E_inv(f_squared), f_prime)

DiffInv(e, v) ==
    LET f == e
        f_prime == diff(e, v)
        f_squared == E_mul(f, f)
    IN  E_mul(E_neg(E_inv(f_squared)), f_prime)

DiffConst(c, v) == E_constant(Numeric(0))

\* every variable leaf taken for the differentiation variable
DiffVarAlwaysOne(w, v) == E_constant(Numeric(1))

DiffVar(w, v) ==
    IF w = v THEN E_constant(Numeric(1)) ELSE E_constant(Numeric(0))

\* the chain rule with the function's name left as it was
DiffFuncSameName(name, arg, v) ==
    LET f_diff == E_func(name, arg)
        arg_diff == diff(arg, v)
    IN  E_mul(f_diff, arg_diff)

DiffFunc(name, arg, v) ==
    LET f_diff == E_func(name \o "_" \o VarFmt(v), arg)
        arg_diff == diff(arg, v)
    IN  E_mul(f_diff, arg_diff)

diff(e, v) ==
    CASE e[1] = "Add" -> DiffAdd(e[2], e[3], v)
      [] e[1] = "Neg" -> DiffNeg(e[2], v)
      [] e[1] = "Mul" -> DiffMul(e[2], e[3], v)
      [] e[1] = "Inv" -> DiffInv(e[2], v)
      [] e[1] = "Const" -> DiffConst(e[2], v)
      [] e[1] = "Var" -> DiffVar(e[2], v)
      [] e[1] = "Func" -> DiffFunc(e[2], e[3], v)

(* Option<Box<E>> is <<"Some", tree>> or <<"None">> *)

\* two wrappers of any unary kind taken for a double reciprocal
unpack_inv_any(self) ==
    IF self[1] \notin {"Inv", "Neg"} THEN <<"None">>
    ELSE LET in1 == self[2]
         IN  IF in1[1] \notin {"Inv", "Neg"} THEN <<"None">> ELSE <<"Some", in1[2]>>

unpack_inv_inv(self) ==
    IF self[1] # "Inv" THEN <<"None">>
    ELSE LET in1 == self[2]
         IN  IF in1[1] # "Inv" THEN <<"None">> ELSE <<"Some", in1[2]>>

RECURSIVE uninv(_)
uninv(self) ==
    LET next == unpack_inv_inv(self)
    IN  IF next[1] = "Some" THEN uninv(next[2]) ELSE self

unpack_neg_neg(self) ==
    IF self[1] = "Neg" /\ self[2][1] = "Neg" THEN <<"Some", self[2][2]>>
    ELSE <<"None">>

RECURSIVE unneg(_)

\* one pair unpacked, the loop not taken again
unnegOnce(self) ==
    LET next == unpack_neg_neg(self)
    IN  IF next[1] = "Some" THEN next[2] ELSE self

unneg(self) ==
    LET next == unpack_neg_neg(self)
    IN  IF next[1] = "Some" THEN unneg(next[2]) ELSE self

RECURSIVE substitute(_, _, _)

\* the right factor left as it was
SubstMulLeftOnly(e1, e2, name, value) == E_mul(substitute(e1, name, value), e2)

SubstMul(e1, e2, name, value) ==
    E_mul(substitute(e1, name, value), substitute(e2, name, value))

\* a variable whose letter is the name taken for the named constant
SubstVarByName(v, name, value) == IF VarFmt(v) = name THEN value ELSE E_var(v)

SubstVar(v, name, value) == E_var(v)

substitute(self, name, value) ==
    CASE self[1] = "Add" ->
            E_add(substitute(self[2], name, value), substitute(self[3], name, value))
      [] self[1] = "Neg" -> E_neg(substitute(self[2], name, value))
      [] self[1] = "Mul" -> SubstMul(self[2], self[3], name, value)
      [] self[1] = "Inv" -> E_inv(substitute(self[2], name, value))
      [] self[1] = "Var" -> SubstVar(self[2], name, value)
      [] self[1] = "Func" -> E_func(self[2], substitute(self[3], name, value))
      [] self[1] = "Const" /\ self[2] = Named(name) -> value
      [] self[1] = "Const" /\ self[2] # Named(name) -> E_constant(self[2])

\* Display of an i64: an optional sign and the decimal digits
Digits == <<"0", "1", "2", "3", "4", "5", "6", "7", "8", "9">>

RECURSIVE IntFmt(_)
IntFmt(n) ==
    IF n < 0 THEN "-" \o IntFmt(-n)
    ELSE IF n < 10 THEN Digits[n + 1]
    ELSE IntFmt(n \div 10) \o Digits[(n % 10) + 1]

\* impl Display for Const
ConstFmt(c) == IF c[1] = "Numeric" THEN IntFmt(c[2]) ELSE c[2]

\* the operand follows the sign with no parentheses
FmtNegBare(e) == "-" \o e

FmtNeg(e) == "-(" \o e \o ")"

\* impl Display for E
RECURSIVE fmt(_)
fmt(self) ==
    CASE self[1] = "Add" -> "(" \o fmt(self[2]) \o " + " \o fmt(self[3]) \o ")"
      [] self[1] = "Neg" -> FmtNeg(fmt(self[2]))
      [] self[1] = "Mul" -> "(" \o fmt(self[2]) \o " * " \o fmt(self[3]) \o ")"
      [] self[1] = "Inv" -> "1/(" \o fmt(self[2]) \o ")"
      [] self[1] = "Const" -> ConstFmt(self[2])
      [] self[1] = "Var" -> VarFmt(self[2])
      [] self[1] = "Func" -> self[2] \o "(" \o fmt(self[3]) \o ")"

RECURSIVE NodeCount(_)
NodeCount(e) ==
    CASE e[1] \in {"Add", "Mul"} -> 1 + NodeCount(e[2]) + NodeCount(e[3])
      [] e[1] \in {"Neg", "Inv"} -> 1 + NodeCount(e[2])
      [] e[1] = "Func" -> 1 + NodeCount(e[3])
      [] OTHER -> 1

(* The trees the model builds *)

Leaves ==
    {E_var(v) : v \in Var} \cup {E_constant(Numeric(n)) : n \in 0..MaxNum}
        \cup {E_constant(Named(s)) : s \in ConstNames}

Unary(S) ==
    {E_neg(e) : e \in S} \cup {E_inv(e) : e \in S}
        \cup {E_func(n, e) : n \in FuncNames, e \in S}

Binary(S, T) ==
    {E_add(a, b) : a \in S, b \in T} \cup {E_mul(a, b) : a \in S, b \in T}

SmallTrees == Leaves \cup Unary(Leaves) \cup Binary(Leaves, Leaves)

Trees ==
    SmallTrees \cup Unary(SmallTrees) \cup Binary(SmallTrees, Leaves)
        \cup Binary(Leaves, SmallTrees)

\* layers, outermost first, put around e
RECURSIVE Wrap(_, _)
Wrap(layers, e) ==
    IF layers = <<>> THEN e
    ELSE IF Head(layers) = "Neg" THEN E_neg(Wrap(Tail(layers), e))
    ELSE E_inv(Wrap(Tail(layers), e))

WrapBases ==
    { E_var("Var::Y"),
      E_constant(Named("a")),
      E_add(E_neg(E_neg(E_var("Var::X"))), E_var("Var::Y")),
      E_func("f", E_inv(E_inv(E_var("Var::Y")))) }

Wrapped ==
    {Wrap(l, e) : l \in UNION {[1..n -> {"Neg", "Inv"}] : n \in 0..MaxWrap},
                  e \in WrapBases}

\* trees of main and of the tests
TestTrees ==
    { E_add(E_func("f", E_add(E_constant(Numeric(2)), E_var("Var::X"))),
            E_func("g", E_mul(E_neg(E_var("Var::Y")), E_inv(E_var("Var::Z"))))),
      E_constant(Numeric(42)),
      E_add(E_var("Var::Z"), E_constant(Numeric(100))),
      E_neg(E_neg(E_func("sin", E_mul(E_constant(Named("a")), E_var("Var::X"))))),
      E_add(E_constant(Named("b")),
            E_mul(E_constant(Named("a")), E_func("a", E_constant(Named("a"))))) }

\* the names substitute is asked to replace: a named constant of the trees,
\* a function's name, a variable's letter
SubstNames == {"a", "f", "X"}

SubstValues ==
    { E_constant(Numeric(MaxNum)),
      E_var("Var::Z"),
      E_add(E_constant(Named("a")), E_var("Var::X")) }

(* Lab 3 as a state machine: a tree is built, then differentiated,         *)
(* simplified, substituted into or rendered; the derivative may be         *)
(* differentiated in turn.                                                 *)

Differentiate ==
    /\ pc3 = "built"
    /\ \E v \in Var :
        /\ by' = v
        /\ res' = diff(expr, v)
    /\ pc3' = "diffed"
    /\ UNCHANGED <<expr, sname, svalue, text>>
    /\ UNCHANGED <<vars5, vars4, varsL>>

DifferentiateAgain ==
    /\ pc3 = "diffed"
    /\ NodeCount(res) <= MaxNodes
    /\ expr' = res
    /\ pc3' = "built"
    /\ text' = <<>>
    /\ UNCHANGED <<by, res, sname, svalue>>
    /\ UNCHANGED <<vars5, vars4, varsL>>

Unneg ==
    /\ pc3 = "built"
    /\ res' = unneg(expr)
    /\ pc3' = "unnegged"
    /\ UNCHANGED <<expr, by, sname, svalue, text>>
    /\ UNCHANGED <<vars5, vars4, varsL>>

Uninv ==
    /\ pc3 = "built"
    /\ res' = uninv(expr)
    /\ pc3' = "uninved"
    /\ UNCHANGED <<expr, by, sname, svalue, text>>
    /\ UNCHANGED <<vars5, vars4, varsL>>

Substitute ==
    /\ pc3 = "built"
    /\ \E n \in SubstNames, r \in SubstValues :
        /\ sname' = n
        /\ svalue' = r
        /\ res' = substitute(expr, n, r)
    /\ pc3' = "substituted"
    /\ UNCHANGED <<expr, by, text>>
    /\ UNCHANGED <<vars5, vars4, varsL>>

\* format!("{}", expr): the tree is borrowed, the string is new
Render ==
    /\ pc3 \in {"built", "rendered"}
    /\ Len(text) < MaxRenders
    /\ text' = Append(text, fmt(expr))
    /\ pc3' = "rendered"
    /\ UNCHANGED <<expr, by, res, sname, svalue>>
    /\ UNCHANGED <<vars5, vars4, varsL>>

\* lab 5 is not running
Parked5 ==
    /\ context = [k \in {} |-> 0]
    /\ cells = [c \in Cells |-> 0]
    /\ prog = nothing
    /\ pc = "idle"
    /\ context0 = context
    /\ cells0 = cells
    /\ calls = [i \in CounterIds |-> 0]
    /\ log = <<>>
    /\ out = <<>>
    /\ trace = <<>>
    /\ val = 0

Init3 ==
    /\ expr \in Trees \cup Wrapped \cup TestTrees
    /\ by = "Var::X"
    /\ res = expr
    /\ pc3 = "built"
    /\ sname = ""
    /\ svalue = expr
    /\ text = <<>>

InitTree == Init3 /\ Parked5 /\ Parked4 /\ ParkedL

NextTree ==
    \/ Differentiate
    \/ DifferentiateAgain
    \/ Unneg
    \/ Uninv
    \/ Substitute
    \/ Render

SpecTree == InitTree /\ [][NextTree]_vars

(* C9: diff(Add(a, b), v) is exactly the tree Add(diff(a, v), diff(b, v)), *)
(* the operands' derivatives not simplified: d/dX (X + Y) is (1 + 0).      *)
C9_DiffSum ==
    (pc3 = "diffed" /\ expr[1] = "Add") =>
        /\ res = <<"Add", diff(expr[2], by), diff(expr[3], by)>>
        /\ (expr = E_add(E_var("Var::X"), E_var("Var::Y")) /\ by = "Var::X") =>
            res = E_add(E_constant(Numeric(1)), E_constant(Numeric(0)))

C9_Witness ==
    /\ pc3 = "diffed"
    /\ expr = E_add(E_var("Var::X"), E_var("Var::Y"))
    /\ by = "Var::X"
    /\ res = <<"Add", <<"Const", <<"Numeric", 1>>>>, <<"Const", <<"Numeric", 0>>>>>>

(* C10: diff(Mul(f, g), v) is exactly the tree                             *)
(* Add(Mul(diff(f, v), g), Mul(f, diff(g, v))) with f and g the operands   *)
(* as they were: d/dX (X * Y) is ((1 * Y) + (X * 0)).                      *)
C10_DiffProduct ==
    (pc3 = "diffed" /\ expr[1] = "Mul") =>
        /\ res = <<"Add", <<"Mul", diff(expr[2], by), expr[3]>>,
                          <<"Mul", expr[2], diff(expr[3], by)>>>>
        /\ (expr = E_mul(E_var("Var::X"), E_var("Var::Y")) /\ by = "Var::X") =>
            res = E_add(E_mul(E_constant(Numeric(1)), E_var("Var::Y")),
                        E_mul(E_var("Var::X"), E_constant(Numeric(0))))

C10_Witness ==
    /\ pc3 = "diffed"
    /\ expr = E_mul(E_func("f", E_var("Var::X")), E_var("Var::Y"))
    /\ by = "Var::X"
    /\ res = <<"Add",
               <<"Mul", <<"Mul", <<"Func", "f_X", <<"Var", "Var::X">>>>,
                                 <<"Const", <<"Numeric", 1>>>>>>,
                        <<"Var", "Var::Y">>>>,
               <<"Mul", <<"Func", "f", <<"Var", "Var::X">>>>, <<"Const", <<"Numeric", 0>>>>>>>>

(* C11: the derivative of a constant leaf, numeric or named, by any         *)
(* variable is the numeric constant 0; the derivative of a variable leaf is *)
(* the numeric constant 1 when the leaf is the differentiation variable and *)
(* the numeric constant 0 when it is another variable.                      *)
C11_DiffLeaf ==
    (pc3 = "diffed") =>
        /\ expr[1] = "Const" => res = <<"Const", <<"Numeric", 0>>>>
        /\ (expr[1] = "Var" /\ expr[2] = by) => res = <<"Const", <<"Numeric", 1>>>>
        /\ (expr[1] = "Var" /\ expr[2] # by) => res = <<"Const", <<"Numeric", 0>>>>

C11_Witness ==
    /\ pc3 = "diffed"
    /\ expr = E_var("Var::Y")
    /\ by = "Var::X"
    /\ res = <<"Const", <<"Numeric", 0>>>>

(* C12: diff(Inv(f), v) is exactly the tree                                 *)
(* Mul(Neg(Inv(Mul(f, f))), diff(f, v)), f the operand as it was:           *)
(* d/dX 1/(X) is (-(1/((X * X))) * 1).                                      *)
C12_DiffInv ==
    (pc3 = "diffed" /\ expr[1] = "Inv") =>
        /\ res = <<"Mul", <<"Neg", <<"Inv", <<"Mul", expr[2], expr[2]>>>>>>,
                          diff(expr[2], by)>>
        /\ (expr = E_inv(E_var("Var::X")) /\ by = "Var::X") =>
            res = E_mul(E_neg(E_inv(E_mul(E_var("Var::X"), E_var("Var::X")))),
                        E_constant(Numeric(1)))

C12_Witness ==
    /\ pc3 = "diffed"
    /\ expr = E_inv(E_add(E_var("Var::X"), E_var("Var::Y")))
    /\ by = "Var::Y"
    /\ res = <<"Mul",
               <<"Neg", <<"Inv", <<"Mul", <<"Add", <<"Var", "Var::X">>, <<"Var", "Var::Y">>>>,
                                          <<"Add", <<"Var", "Var::X">>, <<"Var", "Var::Y">>>>>>>>>>,
               <<"Add", <<"Const", <<"Numeric", 0>>>>, <<"Const", <<"Numeric", 1>>>>>>>>

(* C13: diff(Func{name, arg}, v) is exactly the tree                        *)
(* Mul(Func{name_v, arg}, diff(arg, v)): the new function's name is the old *)
(* name, an underscore and the variable's letter, its argument is arg as it *)
(* was: d/dX f(X) is (f_X(X) * 1).                                          *)
C13_DiffFunc ==
    (pc3 = "diffed" /\ expr[1] = "Func") =>
        /\ res[1] = "Mul"
        /\ res[2][1] = "Func"
        /\ by = "Var::X" => res[2][2] = expr[2] \o "_X"
        /\ by = "Var::Y" => res[2][2] = expr[2] \o "_Y"
        /\ by = "Var::Z" => res[2][2] = expr[2] \o "_Z"
        /\ res[2][3] = expr[3]
        /\ res[3] = diff(expr[3], by)
        /\ (expr = E_func("f", E_var("Var::X")) /\ by = "Var::X") =>
            res = <<"Mul", <<"Func", "f_X", <<"Var", "Var::X">>>>,
                          <<"Const", <<"Numeric", 1>>>>>>

C13_Witness ==
    /\ pc3 = "diffed"
    /\ expr = E_func("f", E_neg(E_var("Var::Z")))
    /\ by = "Var::Z"
    /\ res = <<"Mul", <<"Func", "f_Z", <<"Neg", <<"Var", "Var::Z">>>>>>,
                      <<"Neg", <<"Const", <<"Numeric", 1>>>>>>>>

\* the number of layers of one kind ("Neg" or "Inv") at the root of e
RECURSIVE Layers(_, _)
Layers(kind, e) == IF e[1] = kind THEN 1 + Layers(kind, e[2]) ELSE 0

\* e without the layers of one kind at its root
RECURSIVE Strip(_, _)
Strip(kind, e) == IF e[1] = kind THEN Strip(kind, e[2]) ELSE e

(* C14, as stated: unneg of a tree wrapped in exactly 2k negations has no   *)
(* negation at its root when k is even and one when k is odd; the same for  *)
(* uninv and reciprocals.                                                   *)
C14_EvenLayersByParity ==
    \A k \in 0..MaxWrap :
        /\ (pc3 = "unnegged" /\ Layers("Neg", expr) = 2 * k) =>
            Layers("Neg", res) = (IF k % 2 = 0 THEN 0 ELSE 1)
        /\ (pc3 = "uninved" /\ Layers("Inv", expr) = 2 * k) =>
            Layers("Inv", res) = (IF k % 2 = 0 THEN 0 ELSE 1)

(* C14, amended: unneg of a tree wrapped in exactly 2k negations has no     *)
(* negation at its root, for every k, odd or even, and is the wrapped tree; *)
(* the same for uninv and reciprocals.                                      *)
C14_EvenLayersVanish ==
    \A k \in 0..MaxWrap :
        /\ (pc3 = "unnegged" /\ Layers("Neg", expr) = 2 * k) =>
            (Layers("Neg", res) = 0 /\ res = Strip("Neg", expr))
        /\ (pc3 = "uninved" /\ Layers("Inv", expr) = 2 * k) =>
            (Layers("Inv", res) = 0 /\ res = Strip("Inv", expr))

C14_Witness ==
    /\ pc3 = "unnegged"
    /\ expr = E_neg(E_neg(E_neg(E_neg(E_constant(Named("a"))))))
    /\ res = <<"Const", <<"Named", "a">>>>

(* C15: for a tree t whose root is not a negation, wrapped in n >= 0        *)
(* negations, unneg returns t wrapped in n mod 2 negations, t itself        *)
(* unchanged (five negations of Y give -(Y)); uninv does the same for       *)
(* reciprocals; neither pass removes a layer of the other kind.             *)
C15_LayersModTwo ==
    /\ pc3 = "unnegged" =>
        /\ res = (IF Layers("Neg", expr) % 2 = 0 THEN Strip("Neg", expr)
                  ELSE <<"Neg", Strip("Neg", expr)>>)
        /\ expr[1] = "Inv" => res = expr
        /\ expr = Wrap(<<"Neg", "Neg", "Neg", "Neg", "Neg">>, E_var("Var::Y")) =>
            res = <<"Neg", <<"Var", "Var::Y">>>>
    /\ pc3 = "uninved" =>
        /\ res = (IF Layers("Inv", expr) % 2 = 0 THEN Strip("Inv", expr)
                  ELSE <<"Inv", Strip("Inv", expr)>>)
        /\ expr[1] = "Neg" => res = expr

C15_Witness ==
    /\ pc3 = "uninved"
    /\ expr = E_inv(E_inv(E_inv(E_neg(E_neg(E_var("Var::Y"))))))
    /\ res = <<"Inv", <<"Neg", <<"Neg", <<"Var", "Var::Y">>>>>>>>

\* how many leaves of e are the named constant s
RECURSIVE NamedCount(_, _)
NamedCount(e, s) ==
    CASE e[1] \in {"Add", "Mul"} -> NamedCount(e[2], s) + NamedCount(e[3], s)
      [] e[1] \in {"Neg", "Inv"} -> NamedCount(e[2], s)
      [] e[1] = "Func" -> NamedCount(e[3], s)
      [] OTHER -> IF e = <<"Const", <<"Named", s>>>> THEN 1 ELSE 0

\* o is e with r in the place of every named constant s and nothing else
\* changed
RECURSIVE SameBut(_, _, _, _)
SameBut(e, o, s, r) ==
    IF e = <<"Const", <<"Named", s>>>> THEN o = r
    ELSE IF e[1] \in {"Const", "Var"} THEN o = e
    ELSE /\ o[1] = e[1]
         /\ Len(o) = Len(e)
         /\ CASE e[1] \in {"Add", "Mul"} ->
                    SameBut(e[2], o[2], s, r) /\ SameBut(e[3], o[3], s, r)
              [] e[1] = "Func" -> o[2] = e[2] /\ SameBut(e[3], o[3], s, r)
              [] OTHER -> SameBut(e[2], o[2], s, r)

(* C16: substitute(e, s, r) of a tree e with no named-constant leaf s is e  *)
(* itself; a variable whose letter is s and a function named s are not      *)
(* matches.                                                                 *)
C16_SubstituteAbsent ==
    (pc3 = "substituted" /\ NamedCount(expr, sname) = 0) => res = expr

C16_Witness ==
    /\ pc3 = "substituted"
    /\ sname = "X"
    /\ svalue = E_var("Var::Z")
    /\ expr = E_add(E_func("f", E_var("Var::X")), E_var("Var::X"))
    /\ res = <<"Add", <<"Func", "f", <<"Var", "Var::X">>>>, <<"Var", "Var::X">>>>

(* C17: substitute(e, s, r) puts r in the place of every named-constant     *)
(* leaf s of e, at every depth (in function arguments, under Neg, Inv, Add  *)
(* and Mul), and changes nothing else; the result holds no named constant s *)
(* but those of the copies of r.                                            *)
C17_SubstituteEverywhere ==
    (pc3 = "substituted") =>
        /\ SameBut(expr, res, sname, svalue)
        /\ NamedCount(res, sname) = NamedCount(expr, sname) * NamedCount(svalue, sname)
        /\ (expr = E_mul(E_constant(Named("a")), E_func("f", E_constant(Named("a"))))
                /\ sname = "a" /\ svalue = E_constant(Numeric(1))) =>
            res = <<"Mul", <<"Const", <<"Numeric", 1>>>>,
                          <<"Func", "f", <<"Const", <<"Numeric", 1>>>>>>>>

C17_Witness ==
    /\ pc3 = "substituted"
    /\ sname = "a"
    /\ svalue = E_var("Var::Z")
    /\ expr = E_add(E_constant(Named("b")),
                    E_mul(E_constant(Named("a")), E_func("a", E_constant(Named("a")))))
    /\ res = <<"Add", <<"Const", <<"Named", "b">>>>,
                      <<"Mul", <<"Var", "Var::Z">>, <<"Func", "a", <<"Var", "Var::Z">>>>>>>>

----------------------------------------------------------------------------
(* Lab 4: the directory-listing server. Bytes are the integers 0..255, a    *)
(* Vec<u8>, a String and a path are sequences of bytes.                     *)

\* handle_client reads at most ReadSize bytes
ReadSize == 100
\* a worker's stream.read returns data at most MaxReads times
MaxReads == 3

NL == 10
Rep(b, n) == [i \in 1..n |-> b]
Contains(bytes, b) == \E i \in 1..Len(bytes) : bytes[i] = b

\* b"Bad path\n" and b"Bad dir\n"
BadPath == <<66, 97, 100, 32, 112, 97, 116, 104, 10>>
BadDir == <<66, 97, 100, 32, 100, 105, 114, 10>>

\* whether b is well-formed UTF-8: a byte that is not a continuation byte
\* leads a character, and is followed by the continuation bytes it needs
\* (Need; -1 for a byte that cannot lead) and no more, the first of them in
\* the range its leading byte allows (Second)
Utf8Valid(b) ==
    LET Need(x) ==
            CASE x < 128 -> 0
              [] x \in 194..223 -> 1
              [] x \in 224..239 -> 2
              [] x \in 240..244 -> 3
              [] OTHER -> -1
        Second(x) ==
            CASE x = 224 -> 160..191
              [] x = 237 -> 128..159
              [] x = 240 -> 144..191
              [] x = 244 -> 128..143
              [] OTHER -> 128..191
    IN  /\ b # <<>> => b[1] \notin 128..191
        /\ \A i \in 1..Len(b) :
            b[i] \notin 128..191 =>
                /\ Need(b[i]) >= 0
                /\ i + Need(b[i]) <= Len(b)
                /\ \A j \in 1..Need(b[i]) : b[i + j] \in 128..191
                /\ Need(b[i]) >= 1 => b[i + 1] \in Second(b[i])
                /\ i + Need(b[i]) + 1 <= Len(b) =>
                        b[i + Need(b[i]) + 1] \notin 128..191

\* String::from_utf8
from_utf8(data) == IF Utf8Valid(data) THEN <<"Ok", data>> ELSE <<"Err">>

\* str::trim, for the white space of one byte: what lies between the first
\* and the last byte that is not white space
trim(str) ==
    LET keep == {i \in 1..Len(str) : str[i] \notin {9, 10, 11, 12, 13, 32}}
    IN  IF keep = {} THEN <<>>
        ELSE SubSeq(str, CHOOSE i \in keep : \A j \in keep : i <= j,
                         CHOOSE i \in keep : \A j \in keep : i >= j)

(* What stream.read may return to a worker, by the kind of its peer: "any"  *)
(* sends runs of the letter a that may end in a newline, in an invalid byte *)
(* (0xFF) or in the first byte of a two-byte character (0xC3), or begin     *)
(* with a newline, a space or a continuation byte (0xA9); "line" sends the  *)
(* line "a\n" at once.                                                      *)
Chunks(peer) ==
    IF peer = "line" THEN {<<97, NL>>}
    ELSE UNION {{ Rep(97, n),
                  Rep(97, n - 1) \o <<last>>,
                  <<first>> \o Rep(97, n - 1) } :
                n \in {1, 2, ReadSize \div 2, ReadSize - 1, ReadSize}, last \in {NL, 255, 195}, first \in {NL, 32, 169}}

\* the worker of a connection just accepted
NewConn(p) ==
    [pc |-> "started", peer |-> p, buf |-> <<>>, read |-> 0, got |-> <<>>,
     data |-> <<>>, sent |-> <<>>, err |-> "none"]

\* bulk_read's loop is left only when the buffer is full
BulkReadStepNoNewline(cn, d) ==
    LET read == cn.read + Len(d)
        buf == [i \in 1..Len(cn.buf) |->
                    IF i > cn.read /\ i <= read THEN d[i - cn.read] ELSE cn.buf[i]]
        stop == ~(read < Len(buf))
    IN  [cn EXCEPT !.buf = buf, !.read = read, !.got = Append(@, d),
                   !.data = IF stop THEN SubSeq(buf, 1, read) ELSE @,
                   !.pc = IF stop THEN "handling" ELSE "reading"]

\* one turn of bulk_read's loop in which stream.read returned the bytes d;
\* when the loop is left the buffer is truncated and returned
BulkReadStep(cn, d) ==
    LET read == cn.read + Len(d)
        buf == [i \in 1..Len(cn.buf) |->
                    IF i > cn.read /\ i <= read THEN d[i - cn.read] ELSE cn.buf[i]]
        stop == Contains(SubSeq(buf, 1, read), NL) \/ ~(read < Len(buf))
    IN  [cn EXCEPT !.buf = buf, !.read = read, !.got = Append(@, d),
                   !.data = IF stop THEN SubSeq(buf, 1, read) ELSE @,
                   !.pc = IF stop THEN "handling" ELSE "reading"]

(* fs::read_dir gives Err or the entries; an entry is Err or a file name    *)
Listings ==
    { <<>>,
      << <<"Ok", <<120>>>> >>,
      << <<"Ok", <<120>>>>, <<"Ok", <<255>>>>, <<"Err">>, <<"Ok", <<121, 122>>>> >> }

read_dir(path) ==
    IF path = <<>> THEN {<<"Err">>}
    ELSE {<<"Err">>} \cup {<<"Ok", l>> : l \in Listings}

\* the listing built from the entries: each name that is valid Unicode and
\* a newline
RECURSIVE ListingOf(_)
ListingOf(entries) ==
    IF entries = <<>> THEN <<>>
    ELSE LET e == Head(entries)
         IN  (IF e[1] = "Ok" /\ Utf8Valid(e[2]) THEN e[2] \o <<NL>> ELSE <<>>)
                \o ListingOf(Tail(entries))

\* the eprintln! lines of the entries that are Err
IterErrors(c, entries) ==
    SelectSeq([i \in 1..Len(entries) |->
                  IF entries[i][1] = "Err" THEN <<c, "iterating", "io">>
                  ELSE <<c, "", "">>],
              LAMBDA l : l[2] # "")

\* handle_client from bulk_read's return to its reply: the bytes it hands to
\* bulk_write and the lines it writes to the error stream; dir is what
\* fs::read_dir returned
Reply(c, data, dir) ==
    IF data = <<>> THEN [msg |-> <<>>, log |-> <<>>]
    ELSE IF from_utf8(data)[1] = "Err" THEN [msg |-> BadPath, log |-> <<>>]
    ELSE IF dir[1] = "Err"
         THEN [msg |-> BadDir, log |-> << <<c, "opening directory", "io">> >>]
    ELSE [msg |-> ListingOf(dir[2]), log |-> IterErrors(c, dir[2])]

(* Lab 4 as a state machine: the worker of each accepted connection runs    *)
(* handle_client, one step per call that waits for the socket; PathBuf's    *)
(* from_str cannot fail, so its Err arm is not a step.                      *)

\* the worker's failure ends the process
FailsStopsListener(c, kind, sent, lines) ==
    /\ conns' = [conns EXCEPT ![c].pc = "err", ![c].err = kind, ![c].sent = sent]
    /\ errlog' = errlog \o lines \o << <<c, "client handling", kind>> >>
    /\ listener' = "exited"

\* handle_client returns Err(kind) and the worker's closure reports it
Fails(c, kind, sent, lines) ==
    /\ conns' = [conns EXCEPT ![c].pc = "err", ![c].err = kind, ![c].sent = sent]
    /\ errlog' = errlog \o lines \o << <<c, "client handling", kind>> >>
    /\ UNCHANGED listener

\* stream.peer_addr()?, then bulk_read allocates its buffer
PeerAddr ==
    /\ \E c \in DOMAIN conns :
        /\ conns[c].pc = "started"
        /\ \/ /\ conns' = [conns EXCEPT ![c].pc = "reading",
                                          ![c].buf = Rep(0, ReadSize)]
              /\ UNCHANGED <<errlog, listener>>
           \/ Fails(c, "NotConnected", <<>>, <<>>)
    /\ UNCHANGED incoming
    /\ UNCHANGED <<vars5, vars3, varsL>>

\* stream.read returns n > 0 bytes, no more than the buffer has room for
ReadChunk ==
    /\ \E c \in DOMAIN conns :
        /\ conns[c].pc = "reading"
        /\ Len(conns[c].got) < MaxReads
        /\ \E d \in Chunks(conns[c].peer) :
            /\ Len(d) <= Len(conns[c].buf) - conns[c].read
            /\ conns' = [conns EXCEPT ![c] = BulkReadStep(@, d)]
    /\ UNCHANGED <<errlog, listener, incoming>>
    /\ UNCHANGED <<vars5, vars3, varsL>>

\* stream.read returns 0: the peer has closed
ReadEof ==
    /\ \E c \in DOMAIN conns :
        /\ conns[c].pc = "reading"
        /\ Fails(c, "UnexpectedEof", <<>>, <<>>)
    /\ UNCHANGED incoming
    /\ UNCHANGED <<vars5, vars3, varsL>>

\* stream.read returns Err
ReadFails ==
    /\ \E c \in DOMAIN conns :
        /\ conns[c].pc = "reading"
        /\ Fails(c, "ConnectionReset", <<>>, <<>>)
    /\ UNCHANGED incoming
    /\ UNCHANGED <<vars5, vars3, varsL>>

\* the request is decoded, the directory read and the reply written;
\* bulk_write writes all of it or fails after k bytes
Handle ==
    /\ \E c \in DOMAIN conns :
        /\ conns[c].pc = "handling"
        /\ \E dir \in (IF from_utf8(conns[c].data)[1] = "Ok"
                        THEN read_dir(trim(conns[c].data)) ELSE {<<"NotRead">>}) :
            LET r == Reply(c, conns[c].data, dir)
            IN  \E k \in {0, Len(r.msg) \div 2, Len(r.msg)} :
                    IF k = Len(r.msg)
                    THEN /\ conns' = [conns EXCEPT ![c].pc = "ok", ![c].sent = r.msg]
                         /\ errlog' = errlog \o r.log
                         /\ UNCHANGED listener
                    ELSE \E kind \in {"WriteZero", "BrokenPipe"} :
                            Fails(c, kind, SubSeq(r.msg, 1, k), r.log)
    /\ UNCHANGED incoming
    /\ UNCHANGED <<vars5, vars3, varsL>>

\* one connection has been accepted and its worker spawned
Init4 ==
    /\ conns \in {<<NewConn(p)>> : p \in {"any", "line"}}
    /\ errlog = <<>>
    /\ listener = "listening"
    /\ incoming = <<>>

InitServer == Init4 /\ Parked5 /\ Parked3 /\ ParkedL

NextServer ==
    \/ PeerAddr
    \/ ReadChunk
    \/ ReadEof
    \/ ReadFails
    \/ Handle

SpecServer == InitServer /\ [][NextServer]_vars

(* C19: a request that is not valid UTF-8, and a request that is            *)
(* over-length (100 bytes received without a newline), is answered with     *)
(* "Bad path\n" and nothing else.                                           *)
C19_BadInputGetsBadPath ==
    \A c \in DOMAIN conns :
        (/\ conns[c].pc = "ok"
         /\ \/ ~Utf8Valid(conns[c].data)
            \/ Len(conns[c].data) = ReadSize /\ ~Contains(conns[c].data, NL))
        => conns[c].sent = BadPath

\* the chunks of a sequence of chunks, end to end
RECURSIVE Flat(_)
Flat(chunks) == IF chunks = <<>> THEN <<>> ELSE Head(chunks) \o Flat(Tail(chunks))

\* bulk_read has returned Ok in the worker cn
ReadDone(cn) ==
    \/ cn.pc \in {"handling", "ok"}
    \/ cn.pc = "err" /\ cn.err \in {"WriteZero", "BrokenPipe"}

(* C20: whatever chunks the socket delivers, the request read goes on only  *)
(* while the bytes received hold no newline and are fewer than 100, stops   *)
(* with the first chunk that changes that, never holds more than 100 bytes, *)
(* and the request handled is exactly the bytes received; when the peer     *)
(* closes before that, the read fails and no reply is sent.                 *)
C20_ReadStops ==
    \A c \in DOMAIN conns :
        LET cn == conns[c]
            rcvd == Flat(cn.got)
            before == Flat(SubSeq(cn.got, 1, Len(cn.got) - 1))
        IN  /\ Len(rcvd) <= ReadSize /\ cn.read = Len(rcvd)
            /\ Len(cn.buf) <= ReadSize /\ Len(cn.data) <= ReadSize
            /\ cn.pc = "reading" => (~Contains(rcvd, NL) /\ Len(rcvd) < ReadSize)
            /\ ReadDone(cn) =>
                /\ Contains(rcvd, NL) \/ Len(rcvd) = ReadSize
                /\ ~Contains(before, NL) /\ Len(before) < ReadSize
                /\ cn.data = rcvd
            /\ (cn.pc = "err" /\ cn.err = "UnexpectedEof") =>
                /\ ~Contains(rcvd, NL) /\ Len(rcvd) < ReadSize
                /\ cn.sent = <<>>
                /\ cn.data = <<>>

C20_Witness ==
    /\ conns # <<>>
    /\ conns[1].pc = "ok"
    /\ conns[1].got = << Rep(97, ReadSize \div 2), <<97>>, <<NL, 97>> >>
    /\ conns[1].data = Rep(97, ReadSize \div 2) \o <<97, NL, 97>>
    /\ conns[1].sent = BadDir

(* Lab 4, main: the listener is bound, then the accept loop takes what      *)
(* listener.incoming() yields and spawns a worker per connection; the       *)
(* workers run the steps of handle_client in any interleaving. The line 0   *)
(* of errlog is main's.                                                     *)

\* TcpListener::bind: Ok, or Err reported and main returns
Bind ==
    /\ listener = "unbound"
    /\ \/ /\ listener' = "listening"
          /\ UNCHANGED errlog
       \/ /\ listener' = "exited"
          /\ errlog' = Append(errlog, <<0, "Failed to bind", "AddrInUse">>)
    /\ UNCHANGED <<conns, incoming>>
    /\ UNCHANGED <<vars5, vars3, varsL>>

\* incoming() yields Ok(stream): a worker is spawned for it
Accept ==
    /\ listener = "listening"
    /\ incoming # <<>>
    /\ Head(incoming) # "error"
    /\ conns' = Append(conns, NewConn(Head(incoming)))
    /\ incoming' = Tail(incoming)
    /\ UNCHANGED <<errlog, listener>>
    /\ UNCHANGED <<vars5, vars3, varsL>>

\* the accept error ends the process
AcceptFailsExits ==
    /\ listener = "listening"
    /\ incoming # <<>>
    /\ Head(incoming) = "error"
    /\ errlog' = Append(errlog, <<0, "Connection error", "ConnectionAborted">>)
    /\ incoming' = Tail(incoming)
    /\ listener' = "exited"
    /\ UNCHANGED conns
    /\ UNCHANGED <<vars5, vars3, varsL>>

\* incoming() yields Err: it is reported and the loop goes on
AcceptFails ==
    /\ listener = "listening"
    /\ incoming # <<>>
    /\ Head(incoming) = "error"
    /\ errlog' = Append(errlog, <<0, "Connection error", "ConnectionAborted">>)
    /\ incoming' = Tail(incoming)
    /\ UNCHANGED <<conns, listener>>
    /\ UNCHANGED <<vars5, vars3, varsL>>

InitListener ==
    /\ conns = <<>>
    /\ errlog = <<>>
    /\ listener = "unbound"
    /\ incoming \in { <<"line", "line">>, <<"error", "line">>,
                       <<"line", "error", "line">> }
    /\ Parked5 /\ Parked3 /\ ParkedL

NextListener ==
    \/ Bind
    \/ Accept
    \/ AcceptFails
    \/ PeerAddr
    \/ ReadChunk
    \/ ReadEof
    \/ ReadFails
    \/ Handle

SpecListener == InitListener /\ [][NextListener]_vars

(* C21: with several workers running, the failure of one connection's       *)
(* handler is written to the error stream, leaves the listener accepting    *)
(* and what it has still to accept untouched, and changes no other          *)
(* connection's state; a connection that ends well has sent one of the      *)
(* replies it would have sent alone.                                        *)
C21_FailureIsLocal ==
    /\ [](\A c \in DOMAIN conns :
            /\ conns[c].pc = "err" =>
                /\ \E i \in DOMAIN errlog :
                        errlog[i] = <<c, "client handling", conns[c].err>>
                /\ listener = "listening"
            /\ conns[c].pc = "ok" =>
                conns[c].sent \in {BadDir, <<>>, <<120, NL>>, <<120, NL, 121, 122, NL>>})
    /\ [][\A c \in DOMAIN conns :
            (conns[c].pc # "err" /\ conns'[c].pc = "err") =>
                /\ \A d \in DOMAIN conns \ {c} : conns'[d] = conns[d]
                /\ Len(conns') = Len(conns)
                /\ listener' = listener
                /\ incoming' = incoming]_vars

C21_Witness ==
    /\ Len(conns) = 2
    /\ conns[1].pc = "err"
    /\ conns[2].pc = "ok"
    /\ conns[2].sent = <<120, NL, 121, 122, NL>>
    /\ listener = "listening"
    /\ errlog = << <<1, "client handling", "UnexpectedEof">>,
                   <<0, "Connection error", "ConnectionAborted">>,
                   <<2, "iterating", "io">> >>

(* C22: the process ends only when binding fails: then the error stream     *)
(* holds the bind failure and nothing else, no connection was ever accepted *)
(* and nothing happens afterwards; an accept error or a handler's error     *)
(* leaves the process running.                                              *)
C22_OnlyBindFailureExits ==
    /\ [](listener = "exited" =>
            /\ conns = <<>>
            /\ errlog = << <<0, "Failed to bind", "AddrInUse">> >>)
    /\ [][listener' = "exited" => listener \in {"unbound", "exited"}]_vars
    /\ [][listener = "exited" => UNCHANGED vars]_vars

C22_Witness ==
    /\ listener = "exited"
    /\ errlog = << <<0, "Failed to bind", "AddrInUse">> >>
    /\ incoming = <<"line", "error", "line">>
    /\ conns = <<>>

----------------------------------------------------------------------------
(* Lab 6: make_counter. The model's i64 ranges over -IntMax-1 .. IntMax;    *)
(* an addition that leaves the range panics (overflow checks on) or wraps   *)
(* (overflow checks off).                                                   *)

IntMax == 14
\* at most MaxCounters closures are made, each called at most MaxCalls times
MaxCounters == 2
MaxCalls == 4

\* the closure returned by make_counter(start), not yet called
make_counter(start) ==
    [start |-> start, counter |-> start, rets |-> <<>>, dead |-> FALSE]

\* the closure returns the value after the increment
CounterCallIncremented(cn) ==
    IF cn.counter + 1 > IntMax
    THEN { [cn EXCEPT !.dead = TRUE],
           [cn EXCEPT !.counter = -IntMax - 1, !.rets = Append(@, -IntMax - 1)] }
    ELSE { [cn EXCEPT !.counter = @ + 1, !.rets = Append(@, cn.counter + 1)] }

\* one call of the closure cn: the outcomes it may have
CounterCall(cn) ==
    LET value == cn.counter
    IN  IF cn.counter + 1 > IntMax
        THEN { [cn EXCEPT !.dead = TRUE],
               [cn EXCEPT !.counter = -IntMax - 1, !.rets = Append(@, value)] }
        ELSE { [cn EXCEPT !.counter = @ + 1, !.rets = Append(@, value)] }

MakeCounter ==
    /\ Len(counters) < MaxCounters
    /\ \E start \in {-3, 10, IntMax - 1} :
        counters' = Append(counters, make_counter(start))
    /\ UNCHANGED <<varsF, vars7>>
    /\ UNCHANGED <<vars5, vars3, vars4>>

Call ==
    /\ \E i \in DOMAIN counters :
        /\ ~counters[i].dead
        /\ Len(counters[i].rets) < MaxCalls
        /\ \E cn \in CounterCall(counters[i]) :
            counters' = [counters EXCEPT ![i] = cn]
    /\ UNCHANGED <<varsF, vars7>>
    /\ UNCHANGED <<vars5, vars3, vars4>>

InitCounter ==
    /\ counters = <<>>
    /\ ParkedF /\ Parked7
    /\ Parked5 /\ Parked3 /\ Parked4

NextCounter ==
    \/ MakeCounter
    \/ Call

SpecCounter == InitCounter /\ [][NextCounter]_vars

(* C23, as stated: every call of a counter returns, the k-th of them        *)
(* start + k - 1, and a call of one counter changes no other counter.       *)
C23_CounterSequence ==
    /\ [](\A i \in DOMAIN counters :
            /\ ~counters[i].dead
            /\ \A k \in DOMAIN counters[i].rets :
                    counters[i].rets[k] = counters[i].start + k - 1)
    /\ [][\A i \in DOMAIN counters :
            counters'[i] # counters[i] =>
                \A j \in DOMAIN counters \ {i} : counters'[j] = counters[j]]_vars

(* C23, amended: as long as start + k does not exceed the largest i64, the  *)
(* k-th call of a counter returns, and returns start + k - 1; a call of one *)
(* counter changes no other counter.                                        *)
C23_CounterSequenceInRange ==
    /\ [](\A i \in DOMAIN counters :
            /\ counters[i].dead =>
                    counters[i].start + Len(counters[i].rets) + 1 > IntMax
            /\ \A k \in DOMAIN counters[i].rets :
                    counters[i].start + k <= IntMax =>
                        counters[i].rets[k] = counters[i].start + k - 1)
    /\ [][\A i \in DOMAIN counters :
            counters'[i] # counters[i] =>
                \A j \in DOMAIN counters \ {i} : counters'[j] = counters[j]]_vars

C23_Witness ==
    /\ Len(counters) = 2
    /\ counters[1].start = 10
    /\ counters[1].rets = <<10, 11, 12, 13>>
    /\ counters[2].start = -3
    /\ counters[2].rets = <<-3, -2>>

----------------------------------------------------------------------------
(* Functions of labs 6, 4 and 1. A Vec and a slice are sequences, an edge   *)
(* (u32, u32) is a pair, a BTreeSet is a set.                               *)

\* an edge list has at most MaxEdges edges
MaxEdges == 3
\* divisors is called on 1..MaxN
MaxN == 60
\* the values analyze_results is given are 0..MaxValue
MaxValue == 50

\* Vec::dedup: of each run of equal elements the first is kept
dedup(v) ==
    LET keep == {i \in 1..Len(v) : i = 1 \/ v[i] # v[i - 1]}
    IN  [k \in 1..Cardinality(keep) |->
            v[CHOOSE i \in keep : Cardinality({j \in keep : j <= i}) = k]]

\* slice::sort of integers: the same elements, ascending
sort(v) ==
    [k \in 1..Len(v) |->
        CHOOSE x \in {v[i] : i \in 1..Len(v)} :
            /\ Cardinality({i \in 1..Len(v) : v[i] <= x}) >= k
            /\ Cardinality({i \in 1..Len(v) : v[i] < x}) < k]

\* Iterator::flat_map(...).collect(): the arrays the closure makes of the
\* items, one after the other
RECURSIVE flat_map(_)
flat_map(arrays) ==
    IF arrays = <<>> THEN <<>> ELSE Head(arrays) \o flat_map(Tail(arrays))

vertices_loop(edges) ==
    LET push(vs, x) == IF \E i \in 1..Len(vs) : vs[i] = x THEN vs ELSE Append(vs, x)
        RECURSIVE loop(_, _)
        loop(i, vs) ==
            IF i > Len(edges) THEN vs
            ELSE loop(i + 1, push(push(vs, edges[i][2]), edges[i][1]))
    IN  sort(loop(1, <<>>))

vertices(edges) ==
    LET collected == flat_map([i \in 1..Len(edges) |-> <<edges[i][1], edges[i][2]>>])
    IN  sort(dedup(collected))

cycles_2_loop(edges) ==
    LET RECURSIVE inner(_, _, _)
        inner(i, j, vs) ==
            IF j > Len(edges) THEN vs
            ELSE LET x == edges[i][1]
                     y == edges[i][2]
                     u == edges[j][1]
                     v == edges[j][2]
                 IN  inner(i, j + 1,
                           IF x = v /\ y = u /\ v # u THEN vs \o <<u, v>> ELSE vs)
        RECURSIVE outer(_, _)
        outer(i, vs) ==
            IF i > Len(edges) THEN vs ELSE outer(i + 1, inner(i, 1, vs))
    IN  sort(dedup(outer(1, <<>>)))

\* itertools' cartesian_product of the edges with themselves, then filter,
\* flat_map and collect
cycles_2(edges) ==
    LET n == Len(edges)
        product == [k \in 1..(n * n) |->
                        <<edges[((k - 1) \div n) + 1], edges[((k - 1) % n) + 1]>>]
        kept == SelectSeq(product,
                    LAMBDA p : p[1][1] = p[2][2] /\ p[1][2] = p[2][2]
                               /\ p[1][2] # p[1][1])
        collected == flat_map([i \in 1..Len(kept) |->
                        <<kept[i][1][1], kept[i][1][2], kept[i][2][1], kept[i][2][2]>>])
    IN  sort(dedup(collected))

\* u32::isqrt, and (value as f64).sqrt() as u64 on the values used here:
\* the integer square root, rounded down
isqrt(n) == CHOOSE r \in 0..n : r * r <= n /\ (r + 1) * (r + 1) > n

\* the range 1..n.isqrt().get() excludes its upper end
divisors(n) ==
    LET RECURSIVE loop(_, _)
        loop(i, tree) ==
            IF i >= isqrt(n) THEN tree
            ELSE loop(i + 1,
                      IF n % i = 0
                      THEN tree \cup {i} \cup (IF i * i # n THEN {n \div i} ELSE {})
                      ELSE tree)
    IN  loop(1, {})

\* the array analyze_results takes has 10 elements
ArrayLen == 10

\* The result is (desc, average, found_prime); the average, an f64, is kept
\* as the pair <<sum, len>> of its numerator and denominator.
analyze_results(values) ==
    LET RECURSIVE sumloop(_, _)
        sumloop(k, sum) ==
            IF k > Len(values) THEN sum ELSE sumloop(k + 1, sum + values[k])
        RECURSIVE inner(_, _)
        inner(value, i) ==
            IF value % i = 0 \/ value % (i + 2) = 0 THEN "continue"
            ELSE IF i + 6 > isqrt(value) THEN "break"
            ELSE inner(value, i + 6)
        RECURSIVE outer(_)
        outer(k) ==
            IF k > Len(values) THEN FALSE
            ELSE LET value == values[k]
                 IN  IF value <= 1 THEN outer(k + 1)
                     ELSE IF value = 2 \/ value = 3 THEN TRUE
                     ELSE IF value % 2 = 0 \/ value % 3 = 0 THEN outer(k + 1)
                     ELSE IF inner(value, 5) = "break" THEN TRUE
                     ELSE outer(k + 1)
        found_prime == outer(1)
        desc == IF found_prime THEN "Found prime" ELSE "Not found prime"
    IN  <<desc, <<sumloop(1, 0), Len(values)>>, found_prime>>

\* the edges of the graphs of the tests
EdgePairs == {<<1, 2>>, <<2, 1>>, <<3, 4>>, <<4, 3>>, <<5, 5>>, <<2, 3>>, <<2, 2>>}

\* every list of at most MaxEdges of them, and the two lists of the tests
EdgeLists ==
    UNION {[1..n -> EdgePairs] : n \in 0..MaxEdges}
    \cup {<< <<1, 2>>, <<2, 1>>, <<3, 4>>, <<4, 3>>, <<5, 5>>, <<2, 3>> >>,
          << <<1, 2>>, <<2, 1>>, <<1, 2>>, <<2, 1>>, <<2, 2>> >>}

\* arrays in which the first and the last value vary
ValueArrays ==
    {[i \in 1..ArrayLen |-> IF i = 1 THEN x ELSE IF i = ArrayLen THEN y ELSE 4] :
        x \in 0..MaxValue, y \in 0..MaxValue}

InitFns ==
    /\ input \in ({<<"edges", e>> : e \in EdgeLists}
                  \cup {<<"n", n>> : n \in 1..MaxN}
                  \cup {<<"values", v>> : v \in ValueArrays})
    /\ output = <<>>
    /\ Parked6 /\ Parked7
    /\ Parked5 /\ Parked3 /\ Parked4

VerticesLoop ==
    /\ input[1] = "edges" /\ output = <<>>
    /\ output' = <<"vertices_loop", vertices_loop(input[2])>>
    /\ UNCHANGED <<input, vars6, vars7>>
    /\ UNCHANGED <<vars5, vars3, vars4>>

Vertices ==
    /\ input[1] = "edges" /\ output = <<>>
    /\ output' = <<"vertices", vertices(input[2])>>
    /\ UNCHANGED <<input, vars6, vars7>>
    /\ UNCHANGED <<vars5, vars3, vars4>>

Cycles2Loop ==
    /\ input[1] = "edges" /\ output = <<>>
    /\ output' = <<"cycles_2_loop", cycles_2_loop(input[2])>>
    /\ UNCHANGED <<input, vars6, vars7>>
    /\ UNCHANGED <<vars5, vars3, vars4>>

Cycles2 ==
    /\ input[1] = "edges" /\ output = <<>>
    /\ output' = <<"cycles_2", cycles_2(input[2])>>
    /\ UNCHANGED <<input, vars6, vars7>>
    /\ UNCHANGED <<vars5, vars3, vars4>>

Divisors ==
    /\ input[1] = "n" /\ output = <<>>
    /\ output' = <<"divisors", divisors(input[2])>>
    /\ UNCHANGED <<input, vars6, vars7>>
    /\ UNCHANGED <<vars5, vars3, vars4>>

AnalyzeResults ==
    /\ input[1] = "values" /\ output = <<>>
    /\ output' = <<"analyze_results", analyze_results(input[2])>>
    /\ UNCHANGED <<input, vars6, vars7>>
    /\ UNCHANGED <<vars5, vars3, vars4>>

NextFns ==
    \/ VerticesLoop
    \/ Vertices
    \/ Cycles2Loop
    \/ Cycles2
    \/ Divisors
    \/ AnalyzeResults

SpecFns == InitFns /\ [][NextFns]_vars

\* the result of function f, once it has been called
Returned(f) == output # <<>> /\ output[1] = f

\* the elements of a vector
Elems(v) == {v[i] : i \in 1..Len(v)}

\* ascending without duplicates
Ascending(v) == \A i \in 1..(Len(v) - 1) : v[i] < v[i + 1]

\* the vertices that are an endpoint of some edge
Endpoints(edges) == {edges[i][1] : i \in 1..Len(edges)} \cup {edges[i][2] : i \in 1..Len(edges)}

\* the vertices u with edges u->v and v->u for some v # u
InCycle2(edges) ==
    {u \in Endpoints(edges) :
        \E v \in Endpoints(edges) :
            /\ v # u
            /\ \E i \in 1..Len(edges) : edges[i] = <<u, v>>
            /\ \E j \in 1..Len(edges) : edges[j] = <<v, u>>}

IsPrime(p) == p >= 2 /\ \A d \in 2..(p - 1) : p % d # 0

\* C24: for every edge list vertices(edges) = vertices_loop(edges), and both
\* are the ascending list without duplicates of the endpoints of the edges.
C24_VerticesAgree ==
    (Returned("vertices") \/ Returned("vertices_loop")) =>
        /\ output[2] = vertices(input[2])
        /\ output[2] = vertices_loop(input[2])
        /\ Ascending(output[2])
        /\ Elems(output[2]) = Endpoints(input[2])

\* C25: cycles_2_loop(edges) is, ascending and without duplicates, exactly
\* the vertices that take part in some cycle of length 2.
C25_CyclesLoopExact ==
    Returned("cycles_2_loop") =>
        /\ Ascending(output[2])
        /\ Elems(output[2]) = InCycle2(input[2])

\* C26: for every edge list cycles_2(edges) = cycles_2_loop(edges).
C26_CyclesAgree ==
    (Returned("cycles_2") \/ Returned("cycles_2_loop")) =>
        /\ output[2] = cycles_2(input[2])
        /\ output[2] = cycles_2_loop(input[2])

\* C27: divisors(n) is exactly the set of the positive d with n mod d = 0.
C27_AllDivisors ==
    Returned("divisors") =>
        output[2] = {d \in 1..input[2] : input[2] % d = 0}

\* C29: the flag analyze_results returns is true iff some value is prime,
\* and the description is "Found prime" exactly when the flag is true.
C29_PrimeFlag ==
    Returned("analyze_results") =>
        /\ output[2][3] = (\E k \in 1..Len(input[2]) : IsPrime(input[2][k]))
        /\ (output[2][1] = "Found prime") = output[2][3]

----------------------------------------------------------------------------
(* Lab 7: CachedFile. The cell is <<"None">> or <<"Some", content>>; a file *)
(* is what fs::read_to_string gives for it, <<"Ok", content>> or            *)
(* <<"Err", kind>>. Each call is recorded in `history` with what it         *)
(* returned; a get is recorded with the file as it was at the call and      *)
(* with whether fs::read_to_string was called.                              *)

\* at most MaxCacheCalls calls are made on the CachedFile
MaxCacheCalls == 4

CachePaths == {"non_existent_file.txt", "text_file.txt"}

Files == {<<"Err", "NotFound">>, <<"Ok", "a">>, <<"Ok", "b">>}

\* OnceCell::set: the value is stored only in an empty cell
set(cell, value) == IF cell = <<"None">> THEN <<"Some", value>> ELSE cell

\* the path is read again although the cell is full
getNoCache(cell, file) ==
    IF file[1] = "Err"
    THEN [cache |-> cell, read |-> TRUE, ret |-> file]
    ELSE [cache |-> <<"Some", file[2]>>, read |-> TRUE, ret |-> <<"Ok", file[2]>>]

\* CachedFile::get on a path whose file is `file`: the cell afterwards,
\* whether the file was read, and the result
get(cell, file) ==
    IF cell[1] = "Some"
    THEN [cache |-> cell, read |-> FALSE, ret |-> <<"Ok", cell[2]>>]
    ELSE IF file[1] = "Err"
    THEN [cache |-> cell, read |-> TRUE, ret |-> file]
    ELSE LET stored == set(cell, file[2])
         IN  [cache |-> stored, read |-> TRUE, ret |-> <<"Ok", stored[2]>>]

\* CachedFile::try_get
try_get(cell) == cell

\* CachedFile::new, on any file system
Init7 ==
    /\ cache = <<"None">>
    /\ disk \in [CachePaths -> Files]
    /\ reads = 0
    /\ history = <<>>

InitCache ==
    /\ Init7
    /\ ParkedF /\ Parked6
    /\ Parked5 /\ Parked3 /\ Parked4

Get ==
    /\ Len(history) < MaxCacheCalls
    /\ \E path \in CachePaths :
        LET r == get(cache, disk[path])
        IN  /\ cache' = r.cache
            /\ reads' = IF r.read THEN reads + 1 ELSE reads
            /\ history' = Append(history,
                    [op |-> "get", path |-> path, file |-> disk[path],
                     read |-> r.read, ret |-> r.ret])
    /\ UNCHANGED <<disk, varsF, vars6>>
    /\ UNCHANGED <<vars5, vars3, vars4>>

TryGet ==
    /\ Len(history) < MaxCacheCalls
    /\ history' = Append(history, [op |-> "try_get", ret |-> try_get(cache)])
    /\ UNCHANGED <<cache, disk, reads, varsF, vars6>>
    /\ UNCHANGED <<vars5, vars3, vars4>>

\* between two calls a file is created, rewritten or removed
FileChanges ==
    /\ \E path \in CachePaths, file \in Files :
        /\ disk[path] # file
        /\ disk' = [disk EXCEPT ![path] = file]
    /\ UNCHANGED <<cache, reads, history, varsF, vars6>>
    /\ UNCHANGED <<vars5, vars3, vars4>>

NextCache ==
    \/ Get
    \/ TryGet
    \/ FileChanges

SpecCache == InitCache /\ [][NextCache]_vars

\* the calls of get that returned Ok
Succeeded == {i \in 1..Len(history) : history[i].op = "get" /\ history[i].ret[1] = "Ok"}

\* the content the first successful get returned
FirstContent == history[CHOOSE i \in Succeeded : \A j \in Succeeded : i <= j].ret[2]

\* C28: try_get returns None until some get has succeeded; a get before
\* that reads its path and returns what the read gave, an error leaving the
\* cache empty; from the first successful get on the cache holds the content
\* that get read, and every later get returns it without reading any file,
\* whatever the path and whatever is in the files by then.
C28_CacheOnce ==
    /\ cache = IF Succeeded = {} THEN <<"None">> ELSE <<"Some", FirstContent>>
    /\ reads = Cardinality({i \in 1..Len(history) :
                                history[i].op = "get" /\ history[i].read})
    /\ \A i \in 1..Len(history) :
        LET h == history[i]
            before == \E j \in Succeeded : j < i
        IN  /\ (h.op = "try_get" /\ ~before) => h.ret = <<"None">>
            /\ (h.op = "try_get" /\ before) => h.ret = <<"Some", FirstContent>>
            /\ (h.op = "get" /\ ~before) => (h.read /\ h.ret = h.file)
            /\ (h.op = "get" /\ before) =>
                    (~h.read /\ h.ret = <<"Ok", FirstContent>>)

\* a get failed, a later get succeeded, and a still later get, on a path
\* whose file cannot be read or holds something else, returned the same
\* content
C28_Witness ==
    \E i, j, k \in 1..Len(history) :
        /\ i < j /\ j < k
        /\ history[i].op = "get" /\ history[i].ret[1] = "Err"
        /\ history[j].op = "get" /\ history[j].ret[1] = "Ok" /\ history[j].read
        /\ history[k].op = "get" /\ history[k].file # history[j].file
        /\ history[k].ret = history[j].ret

====
